---- MODULE Spec2Model ----
(***************************************************************************)
(* Model of app.py: the FastAPI relay that forwards one chat message to    *)
(* the OpenAI streaming completion API and re-emits the deltas as          *)
(* Server-Sent Events.                                                     *)
(*                                                                         *)
(* Text is modelled as a sequence of one-character strings, so that the   *)
(* JSON encoding done by pydantic's model_dump_json (quoting, escaping)    *)
(* is computed character by character and a frame on the wire is the       *)
(* exact character sequence the generator yields.                          *)
(* Python's None is the one-element sequence <<"None">>, which is not a    *)
(* text: every text is a sequence of one-character strings.                *)
(***************************************************************************)
EXTENDS Integers, Sequences, FiniteSets, TLC

(***************************************************************************)
(* Bounds of the model.                                                    *)
(***************************************************************************)
\* longest content delta the upstream produces
MaxTextLen == 1
\* most chunks one upstream stream delivers before it must exhaust or fail
MaxChunks == 2

(***************************************************************************)
(* Values.                                                                 *)
(***************************************************************************)
None == <<"None">>

\* characters the upstream may put into a content delta: a plain letter,
\* the quote, and a control character
Alphabet == {"a", "\"", "\n"}

RECURSIVE TextsOfLen(_)
TextsOfLen(n) ==
    IF n = 0 THEN {<<>>}
    ELSE {Append(t, c) : t \in TextsOfLen(n - 1), c \in Alphabet}

\* the non-empty texts within the bound
Texts == UNION {TextsOfLen(n) : n \in 1..MaxTextLen}

\* Python truthiness of an Optional[str]: None and "" are falsy
Truthy(v) == v # None /\ v # <<>>

(***************************************************************************)
(* Constants of app.py.                                                    *)
(***************************************************************************)
DEFAULT_MODEL == "gpt-4o-mini"

AVAILABLE_MODELS == {"gpt-4o-mini", "gpt-4o", "gpt-4-turbo", "gpt-3.5-turbo"}

HTTP_200_OK == 200
HTTP_400_BAD_REQUEST == 400
HTTP_404_NOT_FOUND == 404
HTTP_422_UNPROCESSABLE_ENTITY == 422
HTTP_500_INTERNAL_SERVER_ERROR == 500
HTTP_503_SERVICE_UNAVAILABLE == 503

\* "OpenAI API key not configured"
NoKeyMessage ==
    <<"O","p","e","n","A","I"," ","A","P","I"," ","k","e","y"," ",
      "n","o","t"," ","c","o","n","f","i","g","u","r","e","d">>

\* "API error: "
ApiErrorPrefix == <<"A","P","I"," ","e","r","r","o","r",":"," ">>

\* "data: "
DataPrefix == <<"d","a","t","a",":"," ">>

\* "\n\n"
FrameEnd == <<"\n","\n">>

\* "[DONE]"
DoneToken == <<"[","D","O","N","E","]">>

\* "data: [DONE]\n\n"
DoneFrame == DataPrefix \o DoneToken \o FrameEnd

ContentKey == <<"c","o","n","t","e","n","t">>
ErrorKey == <<"e","r","r","o","r">>

(***************************************************************************)
(* pydantic models and their JSON serialization.                           *)
(* A model instance is the sequence of its <<field name, value>> pairs in  *)
(* declaration order; model_dump_json writes exactly the declared fields.  *)
(***************************************************************************)
\* class ErrorResponse(BaseModel): error: str
ErrorResponse(error) == << <<ErrorKey, error>> >>

\* class StreamResponse(BaseModel): content: Optional[str]; error: Optional[str]
StreamResponse(content, error) == << <<ContentKey, content>>, <<ErrorKey, error>> >>

\* one character inside a JSON string: quote and backslash get a backslash,
\* the newline becomes \n, everything else is written as it is
JsonEscapeChar(c) ==
    IF c = "\"" THEN <<"\\", "\"">>
    ELSE IF c = "\\" THEN <<"\\", "\\">>
    ELSE IF c = "\n" THEN <<"\\", "n">>
    ELSE <<c>>

RECURSIVE JsonEscape(_)
JsonEscape(t) ==
    IF t = <<>> THEN <<>>
    ELSE JsonEscapeChar(Head(t)) \o JsonEscape(Tail(t))

JsonString(t) == <<"\"">> \o JsonEscape(t) \o <<"\"">>

JsonValue(v) == IF v = None THEN <<"n","u","l","l">> ELSE JsonString(v)

RECURSIVE JsonMembers(_)
JsonMembers(fields) ==
    IF fields = <<>> THEN <<>>
    ELSE JsonString(Head(fields)[1]) \o <<":">> \o JsonValue(Head(fields)[2])
         \o (IF Tail(fields) = <<>> THEN <<>> ELSE <<",">> \o JsonMembers(Tail(fields)))

\* BaseModel.model_dump_json(): compact JSON object of the declared fields
model_dump_json(fields) == <<"{">> \o JsonMembers(fields) \o <<"}">>

\* f"data: {x.model_dump_json()}\n\n"
DataFrame(fields) == DataPrefix \o model_dump_json(fields) \o FrameEnd

\* the frame yielded for a non-empty content delta
FragmentFrame(content) == DataFrame(StreamResponse(content, None))

\* the frame yielded when no client is configured
NoKeyFrame == DataFrame(ErrorResponse(NoKeyMessage))

\* the frame yielded from the except branch, str(e) = text
ApiErrorFrame(text) == DataFrame(ErrorResponse(ApiErrorPrefix \o text))

(***************************************************************************)
(* Upstream values.                                                        *)
(***************************************************************************)
\* the value of _openai_client once lifespan has built an AsyncOpenAI
Client == <<"AsyncOpenAI">>

\* chunk.choices[0].delta.content: None, "" or a text
Contents == {None, <<>>} \cup Texts

\* a ChatCompletionChunk, reduced to what the generator reads of it: the
\* list of its choices, each choice being its delta.content
Chunks == {[choices |-> <<>>]} \cup {[choices |-> <<c>>] : c \in Contents}

\* str(e) of an exception raised by the upstream call or stream
ExcTexts == {<<>>, <<"\"", "\\">>}

\* the classes of the exceptions the upstream call or stream raises: no
\* connection, a status error of the provider, a malformed response
UpstreamExcClasses == {"APIConnectionError", "RateLimitError", "ValueError"}

(***************************************************************************)
(* Request bodies of POST /chat: a JSON object with any of the two fields. *)
(***************************************************************************)
Messages == {<<>>, <<"h","i">>}

ModelNames == AVAILABLE_MODELS \cup {"gpt-5"}

\* a body is the set of the fields it has and their values ("has" names the
\* fields that are present; the value of an absent field is not read)
Bodies ==
    {[has |-> {}, message |-> <<>>, model |-> ""]}
    \cup {[has |-> {"message"}, message |-> m, model |-> ""] : m \in Messages}
    \cup {[has |-> {"model"}, message |-> <<>>, model |-> n] : n \in ModelNames}
    \cup {[has |-> {"message", "model"}, message |-> m, model |-> n] :
              m \in Messages, n \in ModelNames}

\* the body of a request that is not a POST /chat
NoBody == [has |-> {}, message |-> <<>>, model |-> ""]

\* the value of request while FastAPI has built no ChatRequest
NoRequest == [message |-> None, model |-> "None"]

\* the module constants as the program has them
ProgramConfig == [available |-> AVAILABLE_MODELS, default |-> DEFAULT_MODEL]

\* the value of modelsResponse while there is no ModelsResponse
NoModelsResponse == [models |-> <<>>, default_model |-> ""]

\* the value of healthResponse while GET /health has not been answered
NoHealthResponse == [status |-> "", openai_configured |-> FALSE, version |-> ""]

\* the states of web/index.html as GET / finds it: absent, readable,
\* present but read_text raises, present at exists() but gone at read_text
FileStates == {"missing", "readable", "unreadable", "vanishes"}

\* the document read_text returns
HtmlDocument == "<html>"

VARIABLES
    lifecycle,        \* lifespan: "starting", "running", "stopped"
    openai_client,    \* the global _openai_client: None or Client
    clientClosed,     \* _openai_client.close() has run
    config,           \* the module constants AVAILABLE_MODELS and DEFAULT_MODEL
    route,            \* the endpoint of the current request: "none", "index", "chat"
    pc,               \* the request: "idle", "received", "validated", "streaming", "closed"
    body,             \* the JSON body of the current POST /chat
    request,          \* the ChatRequest FastAPI built from it, or None
    httpStatus,       \* status of the response, 0 while there is none
    responseBody,     \* body or detail of a non-streaming response, "" while none
    file,             \* how GET / found web/index.html, "none" for other requests
    modelsResponse,   \* the ModelsResponse of the current GET /models
    healthResponse,   \* the answer of the last GET /health
    gen,              \* where the stream_openai_response generator is
    emitted,          \* the frames the generator has yielded, in order
    sent,             \* how many of them the consumer has written out
    chunks,           \* the chunks read from the upstream stream, in order
    upstreamCalls,    \* calls of client.chat.completions.create for this request
    stream,           \* the upstream stream: "none", "open", "exhausted", "failed",
                      \* "closed" (closed before it was read to its end)
    raised            \* str(e) of the exception the upstream raised, or None

vars == <<lifecycle, openai_client, clientClosed, config, route, pc, body,
          request, httpStatus, responseBody, file, modelsResponse,
          healthResponse, gen, emitted, sent, chunks, upstreamCalls,
          stream, raised>>

processVars == <<lifecycle, openai_client, clientClosed, config>>
otherResponses == <<modelsResponse, healthResponse>>
requestVars == <<route, pc, body, request, httpStatus, responseBody, file,
                 modelsResponse, healthResponse>>
streamVars == <<gen, emitted, sent, chunks, upstreamCalls, stream, raised>>

(***************************************************************************)
(* Initial state: the module is imported, lifespan has not run yet.        *)
(***************************************************************************)
NoStream ==
    /\ gen = "none"
    /\ emitted = <<>>
    /\ sent = 0
    /\ chunks = <<>>
    /\ upstreamCalls = 0
    /\ stream = "none"
    /\ raised = None

Init ==
    /\ lifecycle = "starting"
    /\ openai_client = None
    /\ clientClosed = FALSE
    /\ config = ProgramConfig
    /\ route = "none"
    /\ pc = "idle"
    /\ body = NoBody
    /\ request = NoRequest
    /\ httpStatus = 0
    /\ responseBody = ""
    /\ file = "none"
    /\ modelsResponse = NoModelsResponse
    /\ healthResponse = NoHealthResponse
    /\ NoStream

(***************************************************************************)
(* lifespan                                                                *)
(***************************************************************************)
\* the value lifespan assigns to _openai_client at startup
StartupClient(has_openai_key) == IF has_openai_key THEN Client ELSE None

\* startup part of lifespan, up to the yield
LifespanStartup ==
    /\ lifecycle = "starting"
    /\ \E has_openai_key \in BOOLEAN :
           openai_client' = StartupClient(has_openai_key)
    /\ lifecycle' = "running"
    /\ UNCHANGED <<clientClosed, config, requestVars, streamVars>>

\* a cleanup that also sets the global back to None
LifespanShutdown_ResetsClient ==
    /\ lifecycle = "running"
    /\ lifecycle' = "stopped"
    /\ clientClosed' = (openai_client # None)
    /\ openai_client' = None
    /\ UNCHANGED <<config, requestVars, streamVars>>

\* cleanup part of lifespan, after the yield: the client is closed, the
\* global keeps naming it
LifespanShutdown ==
    /\ lifecycle = "running"
    /\ lifecycle' = "stopped"
    /\ clientClosed' = (openai_client # None)
    /\ UNCHANGED <<openai_client, config, requestVars, streamVars>>

\* get_openai_client()
get_openai_client == openai_client

(***************************************************************************)
(* GET /                                                                   *)
(***************************************************************************)
\* the try block of index(): what it raises ("none" when it returns), the
\* status of the HTTPException it raises, the value it returns
IndexTry(fs) ==
    IF fs = "missing"
    THEN [raises |-> "HTTPException", status |-> HTTP_404_NOT_FOUND,
          value |-> "Frontend file not found"]
    ELSE IF fs = "readable"
    THEN [raises |-> "none", status |-> HTTP_200_OK, value |-> HtmlDocument]
    ELSE [raises |-> "OSError", status |-> 0, value |-> ""]

\* the exception classes that `except Exception` catches: HTTPException
\* derives from Exception, as OSError does
IsException(cls) ==
    cls \in {"HTTPException", "OSError", "APIConnectionError", "RateLimitError",
             "ValueError"}

\* index(): the try block, then `except Exception` around all of it
index(fs) ==
    LET r == IndexTry(fs)
    IN  IF IsException(r.raises)
        THEN [status |-> HTTP_500_INTERNAL_SERVER_ERROR,
              body |-> "Failed to load frontend"]
        ELSE [status |-> r.status, body |-> r.value]

\* one GET / request: the handler has no await, it runs in one step
GetIndex ==
    /\ lifecycle = "running"
    /\ pc \in {"idle", "closed"}
    /\ \E fs \in FileStates :
           /\ file' = fs
           /\ httpStatus' = index(fs).status
           /\ responseBody' = index(fs).body
    /\ route' = "index"
    /\ pc' = "closed"
    /\ body' = NoBody
    /\ request' = NoRequest
    /\ modelsResponse' = NoModelsResponse
    /\ UNCHANGED healthResponse
    /\ gen' = "none"
    /\ emitted' = <<>>
    /\ sent' = 0
    /\ chunks' = <<>>
    /\ upstreamCalls' = 0
    /\ stream' = "none"
    /\ raised' = None
    /\ UNCHANGED processVars

(***************************************************************************)
(* POST /chat: body validation and the handler                             *)
(***************************************************************************)
\* a POST /chat arrives
ReceiveChat ==
    /\ lifecycle = "running"
    /\ pc \in {"idle", "closed"}
    /\ \E b \in Bodies : body' = b
    /\ route' = "chat"
    /\ pc' = "received"
    /\ request' = NoRequest
    /\ httpStatus' = 0
    /\ responseBody' = ""
    /\ file' = "none"
    /\ modelsResponse' = NoModelsResponse
    /\ UNCHANGED healthResponse
    /\ gen' = "none"
    /\ emitted' = <<>>
    /\ sent' = 0
    /\ chunks' = <<>>
    /\ upstreamCalls' = 0
    /\ stream' = "none"
    /\ raised' = None
    /\ UNCHANGED processVars

\* ChatRequest with `message: str = Field(...)`, the min_length=1 left out
ChatRequestErrors_NoMinLength(b) ==
    IF "message" \notin b.has THEN {"message: missing"} ELSE {}

\* ChatRequest with `model: str = Field(...)`, the default left out
ChatRequestErrors_ModelRequired(b) ==
    (IF "message" \notin b.has THEN {"message: missing"} ELSE {})
    \cup (IF "message" \in b.has /\ Len(b.message) < 1
          THEN {"message: string_too_short"} ELSE {})
    \cup (IF "model" \notin b.has THEN {"model: missing"} ELSE {})

\* the validation errors of ChatRequest for a body: message is required
\* (Field(...)) and has min_length=1; model has a default and no constraint
ChatRequestErrors(b) ==
    (IF "message" \notin b.has THEN {"message: missing"} ELSE {})
    \cup (IF "message" \in b.has /\ Len(b.message) < 1
          THEN {"message: string_too_short"} ELSE {})

\* the ChatRequest built from a valid body: an absent model is DEFAULT_MODEL
ChatRequest(b) ==
    [message |-> b.message,
     model |-> IF "model" \in b.has THEN b.model ELSE DEFAULT_MODEL]

\* FastAPI validates the body against ChatRequest before it calls chat()
ValidateBody ==
    /\ pc = "received"
    /\ IF ChatRequestErrors(body) # {}
       THEN /\ httpStatus' = HTTP_422_UNPROCESSABLE_ENTITY
            /\ responseBody' = "validation error"
            /\ pc' = "closed"
            /\ UNCHANGED request
       ELSE /\ request' = ChatRequest(body)
            /\ pc' = "validated"
            /\ UNCHANGED <<httpStatus, responseBody>>
    /\ UNCHANGED <<processVars, route, body, file, otherResponses, streamVars>>

\* chat() with the allow-list check left out
ChatResult_NoModelCheck(client, req) ==
    IF client = None
    THEN [status |-> HTTP_503_SERVICE_UNAVAILABLE,
          detail |-> "OpenAI API key not configured"]
    ELSE [status |-> HTTP_200_OK, detail |-> ""]

\* chat() with the client check left out
ChatResult_NoClientCheck(client, req) ==
    IF req.model \notin AVAILABLE_MODELS
    THEN [status |-> HTTP_400_BAD_REQUEST, detail |-> "Model not supported"]
    ELSE [status |-> HTTP_200_OK, detail |-> ""]

\* chat() with the two checks in the other order
ChatResult_ModelFirst(client, req) ==
    IF req.model \notin AVAILABLE_MODELS
    THEN [status |-> HTTP_400_BAD_REQUEST, detail |-> "Model not supported"]
    ELSE IF client = None
    THEN [status |-> HTTP_503_SERVICE_UNAVAILABLE,
          detail |-> "OpenAI API key not configured"]
    ELSE [status |-> HTTP_200_OK, detail |-> ""]

\* chat(): the two checks, in the order of the code, then the
\* StreamingResponse (status 200)
ChatResult(client, req) ==
    IF client = None
    THEN [status |-> HTTP_503_SERVICE_UNAVAILABLE,
          detail |-> "OpenAI API key not configured"]
    ELSE IF req.model \notin AVAILABLE_MODELS
    THEN [status |-> HTTP_400_BAD_REQUEST, detail |-> "Model not supported"]
    ELSE [status |-> HTTP_200_OK, detail |-> ""]

\* the handler runs without an await: one step. On 200 the generator object
\* exists but has not started to run.
chat ==
    /\ pc = "validated"
    /\ LET r == ChatResult(get_openai_client, request)
       IN  /\ httpStatus' = r.status
           /\ responseBody' = r.detail
           /\ IF r.status = HTTP_200_OK
              THEN pc' = "streaming" /\ gen' = "created"
              ELSE pc' = "closed" /\ gen' = "none"
    /\ UNCHANGED <<processVars, route, body, request, file, otherResponses,
                   emitted, sent, chunks, upstreamCalls, stream, raised>>

(***************************************************************************)
(* GET /health and GET /models                                             *)
(***************************************************************************)
\* health_check()
health_check(client) ==
    [status |-> "healthy", openai_configured |-> client # None,
     version |-> "1.0.0"]

\* one GET /health: the handler has no await and touches no state of other
\* requests, it is answered while a POST /chat is streaming as well
GetHealth ==
    /\ lifecycle = "running"
    /\ healthResponse' = health_check(get_openai_client)
    /\ UNCHANGED <<processVars, route, pc, body, request, httpStatus,
                   responseBody, file, modelsResponse, streamVars>>

\* list(s) of a set s: its elements, each once, in an order the set decides
Orders(s) ==
    {o \in [1..Cardinality(s) -> s] : {o[i] : i \in 1..Cardinality(s)} = s}

\* list_models() answering list(AVAILABLE_MODELS)[0] as the default always
list_models_FirstIsDefault(available, default, order) ==
    IF available = {}
    THEN [status |-> HTTP_503_SERVICE_UNAVAILABLE,
          detail |-> "No models configured",
          models |-> <<>>, default_model |-> ""]
    ELSE [status |-> HTTP_200_OK, detail |-> "",
          models |-> order, default_model |-> order[1]]

\* list_models() answering DEFAULT_MODEL always, without the fallback
list_models_NoFallback(available, default, order) ==
    IF available = {}
    THEN [status |-> HTTP_503_SERVICE_UNAVAILABLE,
          detail |-> "No models configured",
          models |-> <<>>, default_model |-> ""]
    ELSE [status |-> HTTP_200_OK, detail |-> "",
          models |-> order, default_model |-> default]

\* list_models(), for the module constants `available` and `default`, with
\* `order` what list(AVAILABLE_MODELS) evaluates to
list_models(available, default, order) ==
    IF available = {}
    THEN [status |-> HTTP_503_SERVICE_UNAVAILABLE,
          detail |-> "No models configured",
          models |-> <<>>, default_model |-> ""]
    ELSE [status |-> HTTP_200_OK, detail |-> "",
          models |-> order,
          default_model |-> IF default \in available THEN default
                            ELSE order[1]]

\* one GET /models: the handler has no await, it runs in one step
GetModels ==
    /\ lifecycle = "running"
    /\ pc \in {"idle", "closed"}
    /\ \E order \in Orders(config.available) :
           LET r == list_models(config.available, config.default, order)
           IN  /\ httpStatus' = r.status
               /\ responseBody' = r.detail
               /\ modelsResponse' =
                      [models |-> r.models, default_model |-> r.default_model]
    /\ route' = "models"
    /\ pc' = "closed"
    /\ body' = NoBody
    /\ request' = NoRequest
    /\ file' = "none"
    /\ gen' = "none"
    /\ emitted' = <<>>
    /\ sent' = 0
    /\ chunks' = <<>>
    /\ upstreamCalls' = 0
    /\ stream' = "none"
    /\ raised' = None
    /\ UNCHANGED <<processVars, healthResponse>>

(***************************************************************************)
(* stream_openai_response: an async generator.  gen is where it stands:    *)
(*   "none"          no generator exists                                   *)
(*   "created"       created, not yet resumed for the first time           *)
(*   "awaitCreate"   suspended in await client.chat.completions.create()   *)
(*   "awaitChunk"    suspended in `async for chunk in stream`              *)
(*   "yieldNoKey"    suspended at the yield of the no-client error         *)
(*   "yieldFragment" suspended at the yield of a content frame             *)
(*   "yieldDone"     suspended at the yield of data: [DONE]                *)
(*   "yieldError"    suspended at the yield in the except branch           *)
(*   "finished"      returned                                              *)
(*   "escaped"       ended by an exception that left the generator         *)
(*   "cancelled"     abandoned by its consumer before it returned          *)
(* A frame is appended to emitted at the moment it is yielded.             *)
(***************************************************************************)
YieldStates == {"yieldNoKey", "yieldFragment", "yieldDone", "yieldError"}

\* the generator without the `if not client` branch: the completion request
\* is issued whatever the client is
GenStart_NoClientCheck(client) ==
    [gen |-> "awaitCreate", frames |-> <<>>, calls |-> 1]

\* the first resumption, up to the first suspension: without a client the
\* error frame is yielded, with one the completion request is issued
GenStart(client) ==
    IF client = None
    THEN [gen |-> "yieldNoKey", frames |-> <<NoKeyFrame>>, calls |-> 0]
    ELSE [gen |-> "awaitCreate", frames |-> <<>>, calls |-> 1]

\* the generator without the `return` after the no-client frame: it goes on
\* into the try block
AfterYield_NoReturn(at) ==
    IF at = "yieldFragment" THEN "awaitChunk"
    ELSE IF at = "yieldNoKey" THEN "awaitCreate"
    ELSE "finished"

\* a generator that starts over after the frame of the except branch (a
\* retry of the completion request)
AfterYield_RetryAfterError(at) ==
    IF at = "yieldFragment" THEN "awaitChunk"
    ELSE IF at = "yieldError" THEN "created"
    ELSE "finished"

\* where the generator goes when it is resumed at a yield: after a content
\* frame the loop asks for the next chunk; `return` follows the no-client
\* frame; nothing follows data: [DONE] nor the frame of the except branch
AfterYield(at) ==
    IF at = "yieldFragment" THEN "awaitChunk" ELSE "finished"

\* the loop body testing `delta.content is not None` instead of its truth
ChunkFrames_NotNone(chunk) ==
    IF chunk.choices # <<>> /\ chunk.choices[1] # None
    THEN <<FragmentFrame(chunk.choices[1])>>
    ELSE <<>>

\* the loop body: the frames yielded for one chunk
ChunkFrames(chunk) ==
    IF chunk.choices # <<>> /\ Truthy(chunk.choices[1])
    THEN <<FragmentFrame(chunk.choices[1])>>
    ELSE <<>>

\* a loop that ends without the `yield "data: [DONE]\n\n"` after it
ExhaustedFrames_Missing == <<>>

\* the frames yielded once the loop is exhausted
ExhaustedFrames == <<DoneFrame>>

\* the except branch followed by the yield of data: [DONE]
ExceptFrames_ThenDone(text) == <<ApiErrorFrame(text), DoneFrame>>

\* the frames yielded by `except Exception as e`, str(e) = text
ExceptFrames(text) == <<ApiErrorFrame(text)>>

\* an except clause that names the provider's status errors only
StreamerCatches_StatusErrorsOnly(cls) == cls \in {"RateLimitError"}

\* the except clause of the generator: `except Exception`
StreamerCatches(cls) == IsException(cls)

\* what an exception raised inside the try block leads to: the except
\* branch and its yield, or the exception leaving the generator
ExceptOutcome(cls, text) ==
    IF StreamerCatches(cls)
    THEN [gen |-> "yieldError", frames |-> ExceptFrames(text)]
    ELSE [gen |-> "escaped", frames |-> <<>>]

\* the consumer asks for the next frame (__anext__): the generator runs
\* from where it stands to its next suspension or to its end
ConsumerPull ==
    /\ gen \in {"created"} \cup YieldStates
    /\ sent = Len(emitted)
    /\ IF gen = "created"
       THEN LET r == GenStart(get_openai_client)
            IN  /\ gen' = r.gen
                /\ emitted' = emitted \o r.frames
                /\ upstreamCalls' = upstreamCalls + r.calls
       ELSE /\ gen' = AfterYield(gen)
            /\ UNCHANGED <<emitted, upstreamCalls>>
    /\ UNCHANGED <<processVars, requestVars, sent, chunks, stream, raised>>

\* the consumer writes the frame it was handed to the response
ConsumerSend ==
    /\ gen \in YieldStates
    /\ sent < Len(emitted)
    /\ sent' = sent + 1
    /\ UNCHANGED <<processVars, requestVars, gen, emitted, chunks,
                   upstreamCalls, stream, raised>>

\* client.chat.completions.create returns the stream
UpstreamCreateReturns ==
    /\ gen = "awaitCreate"
    /\ gen' = "awaitChunk"
    /\ stream' = "open"
    /\ UNCHANGED <<processVars, requestVars, emitted, sent, chunks,
                   upstreamCalls, raised>>

\* client.chat.completions.create raises
UpstreamCreateRaises ==
    /\ gen = "awaitCreate"
    /\ \E cls \in UpstreamExcClasses, text \in ExcTexts :
           /\ raised' = text
           /\ emitted' = emitted \o ExceptOutcome(cls, text).frames
           /\ gen' = ExceptOutcome(cls, text).gen
    /\ UNCHANGED <<processVars, requestVars, sent, chunks, upstreamCalls,
                   stream>>

\* a loop that collects the frames and goes on reading instead of yielding
\* each frame as it is produced
UpstreamChunk_Buffered ==
    /\ gen = "awaitChunk"
    /\ Len(chunks) < MaxChunks
    /\ \E chunk \in Chunks :
           /\ chunks' = Append(chunks, chunk)
           /\ emitted' = emitted \o ChunkFrames(chunk)
    /\ UNCHANGED <<processVars, requestVars, gen, sent, upstreamCalls,
                   stream, raised>>

\* the stream delivers a chunk
UpstreamChunk ==
    /\ gen = "awaitChunk"
    /\ Len(chunks) < MaxChunks
    /\ \E chunk \in Chunks :
           /\ chunks' = Append(chunks, chunk)
           /\ emitted' = emitted \o ChunkFrames(chunk)
           /\ gen' = IF ChunkFrames(chunk) # <<>> THEN "yieldFragment"
                     ELSE "awaitChunk"
    /\ UNCHANGED <<processVars, requestVars, sent, upstreamCalls, stream,
                   raised>>

\* the stream is exhausted
UpstreamExhausted ==
    /\ gen = "awaitChunk"
    /\ emitted' = emitted \o ExhaustedFrames
    /\ gen' = "yieldDone"
    /\ stream' = "exhausted"
    /\ UNCHANGED <<processVars, requestVars, sent, chunks, upstreamCalls,
                   raised>>

\* the stream raises while the loop waits for a chunk
UpstreamRaises ==
    /\ gen = "awaitChunk"
    /\ \E cls \in UpstreamExcClasses, text \in ExcTexts :
           /\ raised' = text
           /\ emitted' = emitted \o ExceptOutcome(cls, text).frames
           /\ gen' = ExceptOutcome(cls, text).gen
    /\ stream' = "failed"
    /\ UNCHANGED <<processVars, requestVars, sent, chunks, upstreamCalls>>

(***************************************************************************)
(* The StreamingResponse around the generator.                             *)
(***************************************************************************)
\* the generator has returned and every frame is written: the response ends
ResponseComplete ==
    /\ pc = "streaming"
    /\ gen = "finished"
    /\ sent = Len(emitted)
    /\ pc' = "closed"
    /\ UNCHANGED <<processVars, route, body, request, httpStatus,
                   responseBody, file, otherResponses, streamVars>>

\* what becomes of the upstream stream when the response task is cancelled
\* with the generator at `at`: the generator has no finally and no
\* `async with` around the stream, so a generator suspended at a yield
\* leaves the stream as it is; a cancellation that arrives while the loop
\* waits for a chunk passes through the iterator of the openai client,
\* which may or may not close the stream on its way
StreamAfterCancel(at, st) ==
    IF at = "awaitChunk" THEN {st, "closed"} ELSE {st}

\* the browser goes away: the response task is cancelled, the generator is
\* never resumed again
ClientDisconnect ==
    /\ pc = "streaming"
    /\ pc' = "closed"
    /\ gen' = IF gen = "finished" THEN "finished" ELSE "cancelled"
    /\ stream' \in StreamAfterCancel(gen, stream)
    /\ UNCHANGED <<processVars, route, body, request, httpStatus,
                   responseBody, file, otherResponses, emitted, sent, chunks,
                   upstreamCalls, raised>>

(***************************************************************************)
(* Specifications.                                                         *)
(***************************************************************************)
\* the application: lifespan, then requests one after the other
Next ==
    \/ LifespanStartup
    \/ LifespanShutdown
    \/ GetIndex
    \/ GetHealth
    \/ GetModels
    \/ ReceiveChat
    \/ ValidateBody
    \/ chat
    \/ ConsumerPull
    \/ ConsumerSend
    \/ UpstreamCreateReturns
    \/ UpstreamCreateRaises
    \/ UpstreamChunk
    \/ UpstreamExhausted
    \/ UpstreamRaises
    \/ ResponseComplete
    \/ ClientDisconnect

Spec == Init /\ [][Next]_vars

\* stream_openai_response called on its own, with or without a client:
\* the arguments are any message and model, the consumer is any async for
InitStreamer ==
    /\ lifecycle = "running"
    /\ openai_client \in {None, Client}
    /\ clientClosed = FALSE
    /\ config = ProgramConfig
    /\ modelsResponse = NoModelsResponse
    /\ healthResponse = NoHealthResponse
    /\ route = "none"
    /\ pc = "idle"
    /\ body = NoBody
    /\ request \in {[message |-> <<"h","i">>, model |-> n] :
                       n \in {DEFAULT_MODEL, "gpt-5"}}
    /\ httpStatus = 0
    /\ responseBody = ""
    /\ file = "none"
    /\ gen = "created"
    /\ emitted = <<>>
    /\ sent = 0
    /\ chunks = <<>>
    /\ upstreamCalls = 0
    /\ stream = "none"
    /\ raised = None

NextStreamer ==
    \/ ConsumerPull
    \/ ConsumerSend
    \/ UpstreamCreateReturns
    \/ UpstreamCreateRaises
    \/ UpstreamChunk
    \/ UpstreamExhausted
    \/ UpstreamRaises

SpecStreamer == InitStreamer /\ [][NextStreamer]_vars

\* one POST /chat from its arrival to the end of its response, with a browser
\* that stays connected, an event loop that runs every task that is ready,
\* and an upstream that answers the create call and ends or fails its stream
InitChat ==
    /\ lifecycle = "running"
    /\ openai_client \in {None, Client}
    /\ clientClosed = FALSE
    /\ config = ProgramConfig
    /\ modelsResponse = NoModelsResponse
    /\ healthResponse = NoHealthResponse
    /\ route = "chat"
    /\ pc = "received"
    /\ body \in Bodies
    /\ request = NoRequest
    /\ httpStatus = 0
    /\ responseBody = ""
    /\ file = "none"
    /\ NoStream

NextChat ==
    \/ ValidateBody
    \/ chat
    \/ ConsumerPull
    \/ ConsumerSend
    \/ UpstreamCreateReturns
    \/ UpstreamCreateRaises
    \/ UpstreamChunk
    \/ UpstreamExhausted
    \/ UpstreamRaises
    \/ ResponseComplete

FairChat ==
    /\ WF_vars(ValidateBody)
    /\ WF_vars(chat)
    /\ WF_vars(ConsumerPull)
    /\ WF_vars(ConsumerSend)
    /\ WF_vars(ResponseComplete)
    /\ WF_vars(UpstreamCreateReturns \/ UpstreamCreateRaises)
    /\ WF_vars(UpstreamExhausted \/ UpstreamRaises)

SpecChat == InitChat /\ [][NextChat]_vars /\ FairChat

\* list_models for any module constants: an allow-list that may be empty
\* and a default that may be outside it
Configs == [available : SUBSET ModelNames, default : ModelNames]

InitModels ==
    /\ lifecycle = "running"
    /\ openai_client = None
    /\ clientClosed = FALSE
    /\ config \in Configs
    /\ route = "none"
    /\ pc = "idle"
    /\ body = NoBody
    /\ request = NoRequest
    /\ httpStatus = 0
    /\ responseBody = ""
    /\ file = "none"
    /\ modelsResponse = NoModelsResponse
    /\ healthResponse = NoHealthResponse
    /\ NoStream

NextModels == GetModels

SpecModels == InitModels /\ [][NextModels]_vars

(***************************************************************************)
(* Reading a frame, as the receiver of the event stream does: the payload  *)
(* between "data: " and the blank line is the token [DONE] or a JSON       *)
(* object whose values are strings or null.  Blanks between the tokens of  *)
(* the object are skipped, so the reading does not depend on how compactly *)
(* the object was written.  These operators are used by the properties     *)
(* below only.                                                             *)
(***************************************************************************)
BadString == [ok |-> FALSE, val |-> <<>>, next |-> 0]

\* the string whose opening quote is before position i
RECURSIVE ReadString(_, _, _)
ReadString(s, i, acc) ==
    IF i > Len(s) THEN BadString
    ELSE IF s[i] = "\"" THEN [ok |-> TRUE, val |-> acc, next |-> i + 1]
    ELSE IF s[i] = "\n" THEN BadString
    ELSE IF s[i] = "\\"
    THEN IF i + 1 > Len(s) THEN BadString
         ELSE IF s[i + 1] \in {"\"", "\\"}
         THEN ReadString(s, i + 2, Append(acc, s[i + 1]))
         ELSE IF s[i + 1] = "n"
         THEN ReadString(s, i + 2, Append(acc, "\n"))
         ELSE BadString
    ELSE ReadString(s, i + 1, Append(acc, s[i]))

RECURSIVE SkipBlanks(_, _)
SkipBlanks(s, i) ==
    IF i <= Len(s) /\ s[i] = " " THEN SkipBlanks(s, i + 1) ELSE i

\* a value at position i: null or a string
ReadValue(s, i) ==
    IF i + 3 <= Len(s) /\ SubSeq(s, i, i + 3) = <<"n","u","l","l">>
    THEN [ok |-> TRUE, val |-> None, next |-> i + 4]
    ELSE IF i <= Len(s) /\ s[i] = "\""
    THEN ReadString(s, i + 1, <<>>)
    ELSE BadString

BadObject == [ok |-> FALSE, members |-> <<>>]

\* the members of an object from position i to the closing brace, which
\* must end s
RECURSIVE ReadMembers(_, _, _)
ReadMembers(s, i, acc) ==
    LET i1 == SkipBlanks(s, i)
        k  == IF i1 <= Len(s) /\ s[i1] = "\"" THEN ReadString(s, i1 + 1, <<>>)
              ELSE BadString
        i2 == SkipBlanks(s, k.next)
        v  == ReadValue(s, SkipBlanks(s, i2 + 1))
        i3 == SkipBlanks(s, v.next)
    IN  IF ~k.ok THEN BadObject
        ELSE IF i2 > Len(s) \/ s[i2] # ":" THEN BadObject
        ELSE IF ~v.ok \/ i3 > Len(s) THEN BadObject
        ELSE IF s[i3] = ","
        THEN ReadMembers(s, i3 + 1, Append(acc, <<k.val, v.val>>))
        ELSE IF s[i3] = "}" /\ i3 = Len(s)
        THEN [ok |-> TRUE, members |-> Append(acc, <<k.val, v.val>>)]
        ELSE BadObject

ReadObject(s) ==
    IF Len(s) < 2 \/ s[1] # "{" THEN BadObject
    ELSE IF SkipBlanks(s, 2) = Len(s) /\ s[Len(s)] = "}"
    THEN [ok |-> TRUE, members |-> <<>>]
    ELSE ReadMembers(s, 2, <<>>)

\* a frame is "data: " payload "\n\n"
IsFramed(f) ==
    /\ Len(f) >= Len(DataPrefix) + Len(FrameEnd)
    /\ SubSeq(f, 1, Len(DataPrefix)) = DataPrefix
    /\ SubSeq(f, Len(f) - Len(FrameEnd) + 1, Len(f)) = FrameEnd

Payload(f) == SubSeq(f, Len(DataPrefix) + 1, Len(f) - Len(FrameEnd))

\* what a frame says: kind "done", "json" (with the members of the object)
\* or "bad"
ReadFrame(f) ==
    IF ~IsFramed(f) THEN [kind |-> "bad", members |-> <<>>]
    ELSE IF Payload(f) = DoneToken THEN [kind |-> "done", members |-> <<>>]
    ELSE LET o == ReadObject(Payload(f))
         IN  IF o.ok THEN [kind |-> "json", members |-> o.members]
             ELSE [kind |-> "bad", members |-> <<>>]

HasKey(ev, key) == \E j \in 1..Len(ev.members) : ev.members[j][1] = key

\* the value of a key the object has
ValueOf(ev, key) ==
    ev.members[CHOOSE j \in 1..Len(ev.members) : ev.members[j][1] = key][2]

KeysOf(ev) == {ev.members[j][1] : j \in 1..Len(ev.members)}

\* data: [DONE]
IsDone(f) == ReadFrame(f).kind = "done"

\* an Error frame: an object that carries an error message
IsError(f) ==
    LET ev == ReadFrame(f)
    IN  ev.kind = "json" /\ HasKey(ev, ErrorKey) /\ ValueOf(ev, ErrorKey) # None

ErrorMessage(f) == ValueOf(ReadFrame(f), ErrorKey)

\* a Fragment frame: an object that carries content and no error
IsFragment(f) ==
    LET ev == ReadFrame(f)
    IN  /\ ev.kind = "json"
        /\ HasKey(ev, ContentKey) /\ ValueOf(ev, ContentKey) # None
        /\ ~(HasKey(ev, ErrorKey) /\ ValueOf(ev, ErrorKey) # None)

\* the frame is exactly {"content": text, "error": null}
IsFragmentOf(f, text) ==
    LET ev == ReadFrame(f)
    IN  /\ ev.kind = "json"
        /\ Len(ev.members) = 2
        /\ KeysOf(ev) = {ContentKey, ErrorKey}
        /\ ValueOf(ev, ContentKey) = text
        /\ ValueOf(ev, ErrorKey) = None

IsTerminal(f) == IsDone(f) \/ IsError(f)

(***************************************************************************)
(* Properties.                                                             *)
(***************************************************************************)
\* the content deltas that must become frames: those of the chunks that
\* have a choice whose delta content is a non-empty text
RECURSIVE NonEmptyDeltas(_)
NonEmptyDeltas(cs) ==
    IF cs = <<>> THEN <<>>
    ELSE (IF Head(cs).choices # <<>>
             /\ Head(cs).choices[1] \notin {None, <<>>}
          THEN <<Head(cs).choices[1]>> ELSE <<>>)
         \o NonEmptyDeltas(Tail(cs))

\* the first n frames are the Fragment frames of the deltas, in order
FragmentsAre(frames, deltas) ==
    /\ Len(frames) >= Len(deltas)
    /\ \A i \in 1..Len(deltas) : IsFragmentOf(frames[i], deltas[i])

LastFrame == emitted[Len(emitted)]

\* C1: every stream of stream_openai_response is closed by exactly one
\* terminal frame (data: [DONE] or an Error frame): a terminal frame is the
\* last frame yielded, every frame before it is a Fragment frame, and a
\* generator that has returned has yielded one.
C1_OneTerminalFrameClosesStream ==
    /\ \A i \in 1..Len(emitted) :
           IF i < Len(emitted)
           THEN IsFragment(emitted[i]) /\ ~IsTerminal(emitted[i])
           ELSE IsFragment(emitted[i]) \/ IsTerminal(emitted[i])
    /\ gen = "finished" => emitted # <<>> /\ IsTerminal(LastFrame)
    /\ (emitted # <<>> /\ IsTerminal(LastFrame))
           => gen \in {"yieldNoKey", "yieldDone", "yieldError", "finished"}

\* a stream of two content frames closed by data: [DONE], the generator
\* returned
C1_Witness ==
    /\ gen = "finished"
    /\ Len(emitted) = 3
    /\ IsDone(LastFrame)

\* C2: with a client, once the upstream stream is exhausted without an
\* error the frames are one {"content": d, "error": null} per non-empty
\* delta d, in upstream order, then one data: [DONE].
C2_FragmentsThenDone ==
    stream = "exhausted" =>
        /\ openai_client # None
        /\ raised = None
        /\ Len(emitted) = Len(NonEmptyDeltas(chunks)) + 1
        /\ FragmentsAre(emitted, NonEmptyDeltas(chunks))
        /\ LastFrame = DoneFrame

\* two chunks were read, one without content and one with a quote in it
C2_Witness ==
    /\ stream = "exhausted"
    /\ gen = "finished"
    /\ Len(chunks) = 2
    /\ NonEmptyDeltas(chunks) = << <<"\"">> >>
    /\ Len(emitted) = 2

\* C3: when the upstream raises, on create or after k fragments, the frames
\* are those k Fragment frames, then one Error frame; no data: [DONE] and
\* no further Fragment frame follows, and the generator ends.
C3_FragmentsThenError ==
    raised # None =>
        /\ Len(emitted) = Len(NonEmptyDeltas(chunks)) + 1
        /\ FragmentsAre(emitted, NonEmptyDeltas(chunks))
        /\ IsError(LastFrame)
        /\ ErrorMessage(LastFrame) = ApiErrorPrefix \o raised
        /\ \A i \in 1..Len(emitted) : ~IsDone(emitted[i])
        /\ gen \in {"yieldError", "finished", "cancelled"}

\* the upstream raised after one fragment and the generator has returned
C3_Witness ==
    /\ raised # None
    /\ stream = "failed"
    /\ Len(emitted) = 2
    /\ gen = "finished"

\* C4: every Error frame is {"content": null, "error": message}: it has the
\* two keys, content null.  The code writes an ErrorResponse, whose only
\* field is error.
C4_ErrorFrameHasBothKeys ==
    \A i \in 1..Len(emitted) :
        IsError(emitted[i]) =>
            LET ev == ReadFrame(emitted[i])
            IN  /\ KeysOf(ev) = {ContentKey, ErrorKey}
                /\ ValueOf(ev, ContentKey) = None

\* the request of the current POST /chat names a model outside the allow-list
NamesUnlistedModel ==
    route = "chat" /\ "model" \in body.has /\ body.model \notin AVAILABLE_MODELS

NoStreamOpened ==
    /\ gen = "none"
    /\ emitted = <<>>
    /\ upstreamCalls = 0
    /\ stream = "none"
    /\ httpStatus # HTTP_200_OK
    /\ pc # "streaming"

\* C5 as claimed: every POST /chat whose model is not in AVAILABLE_MODELS is
\* answered 400, with no stream and no upstream call.
C5_UnlistedModelAlways400 ==
    (NamesUnlistedModel /\ pc = "closed") =>
        httpStatus = HTTP_400_BAD_REQUEST /\ NoStreamOpened

\* C5 (amended): a POST /chat whose model is not in AVAILABLE_MODELS opens
\* no stream and makes no upstream call; it is answered 400 when its body
\* is valid and a client is configured.
C5_UnlistedModelNoStream ==
    NamesUnlistedModel =>
        /\ NoStreamOpened
        /\ (pc = "closed" /\ ChatRequestErrors(body) = {} /\ openai_client # None)
               => httpStatus = HTTP_400_BAD_REQUEST

C5_Witness ==
    /\ NamesUnlistedModel
    /\ pc = "closed"
    /\ openai_client # None
    /\ httpStatus = HTTP_400_BAD_REQUEST

\* C6: a validated POST /chat (non-empty message) arriving while no client
\* is configured is answered 503 before any stream is opened, whatever the
\* model.
C6_NoClient503 ==
    (route = "chat" /\ request # NoRequest /\ openai_client = None) =>
        /\ NoStreamOpened
        /\ pc \in {"validated", "closed"}
        /\ pc = "closed" => httpStatus = HTTP_503_SERVICE_UNAVAILABLE

\* 503 for a request that names a model outside the allow-list
C6_Witness ==
    /\ route = "chat"
    /\ openai_client = None
    /\ request # NoRequest
    /\ request.model \notin AVAILABLE_MODELS
    /\ pc = "closed"
    /\ httpStatus = HTTP_503_SERVICE_UNAVAILABLE

\* C7: a POST /chat whose message is the empty string is rejected with 422
\* before chat() runs: no ChatRequest is built, no stream is opened, no
\* upstream call is made, with or without a client, whatever the model.
C7_EmptyMessage422 ==
    (route = "chat" /\ "message" \in body.has /\ body.message = <<>>) =>
        /\ request = NoRequest
        /\ pc \in {"received", "closed"}
        /\ NoStreamOpened
        /\ pc = "closed" => httpStatus = HTTP_422_UNPROCESSABLE_ENTITY

\* 422 with a client configured and an allowed model
C7_Witness ==
    /\ route = "chat"
    /\ body.has = {"message", "model"}
    /\ body.message = <<>>
    /\ body.model \in AVAILABLE_MODELS
    /\ openai_client # None
    /\ pc = "closed"
    /\ httpStatus = HTTP_422_UNPROCESSABLE_ENTITY

\* the body of the current POST /chat has a non-empty message and no model
HasMessageButNoModel ==
    /\ route = "chat"
    /\ "message" \in body.has /\ body.message # <<>>
    /\ "model" \notin body.has

\* C8 as claimed: a body with a non-empty message and no model fails with
\* 422 and never reaches Validated or Streaming.
C8_MissingModel422 ==
    HasMessageButNoModel =>
        /\ pc \notin {"validated", "streaming"}
        /\ pc = "closed" => httpStatus = HTTP_422_UNPROCESSABLE_ENTITY

\* C8 (amended): a body with a non-empty message and no model is valid: the
\* ChatRequest built from it has model DEFAULT_MODEL, it is never answered
\* 422, and it is answered 503 without a client and 200 with one.
C8_MissingModelIsDefault ==
    HasMessageButNoModel =>
        /\ httpStatus # HTTP_422_UNPROCESSABLE_ENTITY
        /\ pc # "received" =>
               request = [message |-> body.message, model |-> DEFAULT_MODEL]
        /\ pc \in {"streaming", "closed"} =>
               httpStatus = IF openai_client = None
                            THEN HTTP_503_SERVICE_UNAVAILABLE
                            ELSE HTTP_200_OK

\* such a request is streaming
C8_Witness ==
    /\ HasMessageButNoModel
    /\ pc = "streaming"
    /\ request.model = DEFAULT_MODEL
    /\ Len(emitted) = 1

NoFragmentNoDone ==
    \A i \in 1..Len(emitted) : ~IsFragment(emitted[i]) /\ ~IsDone(emitted[i])

SingleErrorFrame ==
    httpStatus = HTTP_200_OK /\ Len(emitted) = 1 /\ IsError(emitted[1])

\* C9 as claimed: without a client every POST /chat ends as a stream of one
\* Error frame or as a 503, and yields no Fragment frame and no data: [DONE].
C9_NoClientErrorOr503 ==
    (route = "chat" /\ openai_client = None) =>
        /\ NoFragmentNoDone
        /\ pc = "closed" =>
               (httpStatus = HTTP_503_SERVICE_UNAVAILABLE \/ SingleErrorFrame)

\* C9 (amended): without a client every POST /chat ends as a 422 (invalid
\* body), as a 503, or as a stream of one Error frame, and yields no
\* Fragment frame and no data: [DONE].
C9_NoClient422Or503 ==
    (route = "chat" /\ openai_client = None) =>
        /\ NoFragmentNoDone
        /\ pc = "closed" =>
               \/ httpStatus = HTTP_422_UNPROCESSABLE_ENTITY
                  /\ ChatRequestErrors(body) # {} /\ emitted = <<>>
               \/ httpStatus = HTTP_503_SERVICE_UNAVAILABLE
                  /\ ChatRequestErrors(body) = {} /\ emitted = <<>>
               \/ SingleErrorFrame

\* a valid request for an allowed model answered 503
C9_Witness ==
    /\ route = "chat"
    /\ openai_client = None
    /\ pc = "closed"
    /\ request # NoRequest
    /\ request.model \in AVAILABLE_MODELS
    /\ httpStatus = HTTP_503_SERVICE_UNAVAILABLE

\* C10: GET / answers 404 when the file does not exist, 500 only for
\* another failure of reading it, and the document when it is readable.
\* The HTTPException(404) is raised inside the try block and caught by its
\* `except Exception`.
C10_Index404WhenMissing ==
    (route = "index" /\ pc = "closed") =>
        /\ file = "missing" => httpStatus = HTTP_404_NOT_FOUND
        /\ httpStatus = HTTP_500_INTERNAL_SERVER_ERROR =>
               file \in {"unreadable", "vanishes"}
        /\ file = "readable" =>
               httpStatus = HTTP_200_OK /\ responseBody = HtmlDocument

\* C11: once a POST /chat is streaming (status 200), an upstream failure,
\* that of the completion request included, never leaves the generator as
\* an exception: it is the last frame of the stream, an Error frame; and
\* the status of a streaming response stays 200.
C11_UpstreamFailureInBand ==
    /\ []((route = "chat" /\ raised # None) =>
              /\ gen # "escaped"
              /\ httpStatus = HTTP_200_OK
              /\ emitted # <<>>
              /\ IsError(LastFrame)
              /\ ErrorMessage(LastFrame) = ApiErrorPrefix \o raised)
    /\ [][pc = "streaming" =>
              httpStatus = HTTP_200_OK /\ httpStatus' = HTTP_200_OK]_vars

\* the completion request itself failed; the response is a 200 whose only
\* frame is the Error frame, written out
C11_Witness ==
    /\ route = "chat"
    /\ raised # None
    /\ stream = "none"
    /\ upstreamCalls = 1
    /\ httpStatus = HTTP_200_OK
    /\ sent = 1
    /\ gen = "finished"

\* the models of the ModelsResponse, as a set
ListedModels ==
    {modelsResponse.models[i] : i \in 1..Len(modelsResponse.models)}

ModelsAnswered == route = "models" /\ pc = "closed"

\* C12: GET /models answers 503 exactly when AVAILABLE_MODELS is empty;
\* otherwise its models are the elements of AVAILABLE_MODELS, each once, and
\* its default_model is DEFAULT_MODEL.
C12_ModelsAndDefault ==
    ModelsAnswered =>
        /\ httpStatus = HTTP_503_SERVICE_UNAVAILABLE <=> AVAILABLE_MODELS = {}
        /\ httpStatus # HTTP_503_SERVICE_UNAVAILABLE =>
               /\ httpStatus = HTTP_200_OK
               /\ ListedModels = AVAILABLE_MODELS
               /\ Len(modelsResponse.models) = Cardinality(AVAILABLE_MODELS)
               /\ modelsResponse.default_model = DEFAULT_MODEL

\* the list was answered in an order that does not start with DEFAULT_MODEL
C12_Witness ==
    /\ ModelsAnswered
    /\ httpStatus = HTTP_200_OK
    /\ Len(modelsResponse.models) = 4
    /\ modelsResponse.models[1] # DEFAULT_MODEL
    /\ modelsResponse.default_model = DEFAULT_MODEL

\* C13: without a client stream_openai_response yields one Error frame,
\* with the message "OpenAI API key not configured", and ends: it makes no
\* upstream call and yields no Fragment frame and no data: [DONE].
C13_NoClientOneErrorFrame ==
    (openai_client = None /\ gen # "none") =>
        /\ upstreamCalls = 0
        /\ stream = "none"
        /\ chunks = <<>>
        /\ gen \in {"created", "yieldNoKey", "finished"}
        /\ gen = "created" => emitted = <<>>
        /\ gen # "created" =>
               /\ Len(emitted) = 1
               /\ IsError(emitted[1])
               /\ ErrorMessage(emitted[1]) = NoKeyMessage

\* the generator has yielded the frame, it was written out, and the
\* generator has returned
C13_Witness ==
    /\ openai_client = None
    /\ gen = "finished"
    /\ Len(emitted) = 1
    /\ sent = 1

\* C14: a POST /chat issues at most one completion request in its whole
\* life, also when the upstream fails and when the client disconnects; a
\* request answered 422, 503 or 400 issues none.
C14_AtMostOneUpstreamCall ==
    route = "chat" =>
        /\ upstreamCalls <= 1
        /\ httpStatus \in {HTTP_422_UNPROCESSABLE_ENTITY,
                           HTTP_503_SERVICE_UNAVAILABLE,
                           HTTP_400_BAD_REQUEST} => upstreamCalls = 0
        /\ (stream # "none" \/ raised # None) => upstreamCalls = 1

\* the completion request failed, its Error frame was written, the response
\* is complete: one call was made
C14_Witness ==
    /\ route = "chat"
    /\ pc = "closed"
    /\ gen = "finished"
    /\ raised # None
    /\ stream = "none"
    /\ upstreamCalls = 1

\* C15: the upstream stream opened for a POST /chat is closed on every way
\* out of the request: disconnect, upstream error, normal completion.  A
\* stream read to its end or ended by its own error counts as released.
\* The generator never closes the stream; a disconnect while the generator
\* is suspended at a yield leaves it open.
C15_StreamClosedOnEveryExit ==
    (route = "chat" /\ pc = "closed" /\ stream # "none") =>
        stream \in {"closed", "exhausted", "failed"}

\* C16: once startup is over no step changes _openai_client, shutdown
\* included (it closes the client and keeps the global): what GET /health
\* reported and what a streaming POST /chat found stay what the global is.
C16_ClientHandleNeverMutated ==
    /\ [][lifecycle # "starting" => openai_client' = openai_client]_vars
    /\ [](healthResponse # NoHealthResponse =>
              healthResponse.openai_configured = (openai_client # None))
    /\ []((route = "chat" /\ httpStatus = HTTP_200_OK) => openai_client = Client)

\* shutdown has closed the client while a POST /chat is streaming and after
\* GET /health was answered
C16_Witness ==
    /\ lifecycle = "stopped"
    /\ clientClosed
    /\ openai_client = Client
    /\ pc = "streaming"
    /\ gen = "awaitChunk"
    /\ healthResponse.openai_configured

\* a body that POST /chat accepts: a non-empty message, a listed model (or
\* none, which is the default model), and a configured client
AcceptedRequest ==
    /\ route = "chat"
    /\ "message" \in body.has /\ Len(body.message) >= 1
    /\ ("model" \in body.has => body.model \in AVAILABLE_MODELS)
    /\ openai_client # None

\* the response is over and the last frame written is data: [DONE] or an
\* Error frame
ClosedAfterTerminalFrame ==
    /\ pc = "closed"
    /\ httpStatus = HTTP_200_OK
    /\ emitted # <<>>
    /\ sent = Len(emitted)
    /\ IsTerminal(LastFrame)

\* C17: an accepted POST /chat, with an upstream that ends or fails and a
\* browser that stays connected, reaches Closed, and the last frame written
\* is then data: [DONE] or an Error frame.
C17_AcceptedRequestTerminates ==
    (pc = "received" /\ AcceptedRequest) ~> ClosedAfterTerminalFrame

\* an accepted request closed after two content frames and data: [DONE]
C17_Witness ==
    /\ AcceptedRequest
    /\ ClosedAfterTerminalFrame
    /\ Len(emitted) = 3
    /\ IsDone(LastFrame)
    /\ stream = "exhausted"

\* the chunks read from upstream that produced no frame
SkippedChunks == Len(chunks) - Len(NonEmptyDeltas(chunks))

\* C18: frames are forwarded one by one: at most one produced frame waits to
\* be written, no chunk is awaited while a frame waits, and the chunks read
\* exceed the frames written by at most the skipped chunks plus one.
C18_NoBuffering ==
    /\ Len(emitted) - sent \in {0, 1}
    /\ gen = "awaitChunk" => sent = Len(emitted)
    /\ Len(chunks) <= sent + SkippedChunks + 1

\* the second chunk has been read and its frame waits to be written, after
\* the frame of the first chunk was written
C18_Witness ==
    /\ pc = "streaming"
    /\ gen = "yieldFragment"
    /\ Len(chunks) = 2
    /\ SkippedChunks = 0
    /\ Len(emitted) = 2
    /\ sent = 1

\* the status the precedence validation, client, allow-list gives a body
PrecedenceStatus(b, client) ==
    IF ChatRequestErrors(b) # {} THEN HTTP_422_UNPROCESSABLE_ENTITY
    ELSE IF client = None THEN HTTP_503_SERVICE_UNAVAILABLE
    ELSE IF ChatRequest(b).model \notin AVAILABLE_MODELS
    THEN HTTP_400_BAD_REQUEST
    ELSE HTTP_200_OK

\* C19: the answer to POST /chat is decided by body validation (422), then
\* the client (503), then the allow-list (400), else a 200 stream; a stream
\* exists exactly when the status is 200.
C19_CheckPrecedence ==
    (route = "chat" /\ pc \in {"streaming", "closed"}) =>
        /\ httpStatus = PrecedenceStatus(body, openai_client)
        /\ (gen # "none") = (httpStatus = HTTP_200_OK)

\* a valid message with an unlisted model and no client: answered 503
C19_Witness ==
    /\ route = "chat"
    /\ pc = "closed"
    /\ openai_client = None
    /\ body.has = {"message", "model"}
    /\ Len(body.message) >= 1
    /\ body.model \notin AVAILABLE_MODELS
    /\ httpStatus = HTTP_503_SERVICE_UNAVAILABLE
    /\ gen = "none"

\* C20: when GET /models succeeds its default_model is one of its models:
\* the configured default when that is an available model, and otherwise an
\* available model; the models are the available ones.
C20_DefaultIsListed ==
    (ModelsAnswered /\ httpStatus = HTTP_200_OK) =>
        /\ ListedModels = config.available
        /\ modelsResponse.default_model \in ListedModels
        /\ config.default \in config.available =>
               modelsResponse.default_model = config.default
        /\ config.default \notin config.available =>
               modelsResponse.default_model \in config.available

\* the configured default is not among the two or more available models and
\* the answer falls back to the first of the list
C20_Witness ==
    /\ ModelsAnswered
    /\ httpStatus = HTTP_200_OK
    /\ config.default \notin config.available
    /\ Cardinality(config.available) >= 2
    /\ modelsResponse.default_model = modelsResponse.models[1]

====
